---------------------------- MODULE Spec2Model ----------------------------
(***************************************************************************)
(* Model of src/src/unreliable_bincode_channel.rs: UnreliableBincodeChannel *)
(* (one reusable buffer + an UnreliableChannel), the bincode codec it is    *)
(* configured with, the error translation, and UnreliableTypedChannel.      *)
(* The channel's packet streams are connected by an unreliable packet       *)
(* transport.                                                               *)
(***************************************************************************)
EXTENDS Integers, Sequences, FiniteSets, TLC

(***************************************************************************)
(* Sizes.  MAX_MESSAGE_LEN is imported from unreliable_channel (line 10);   *)
(* the model uses a small value so that short, exactly fitting and too long *)
(* messages all occur.                                                      *)
(***************************************************************************)
MAX_MESSAGE_LEN == 3

\* bytes of framing the transport spends per coalesced message
FRAME_LEN == 2

\* capacity of one transport packet
MAX_PACKET_LEN == MAX_MESSAGE_LEN + FRAME_LEN

\* capacity of the packet queues between a channel and the network
MaxQueue == 2

\* number of send / flush / recv calls in one behaviour
MaxOps == 4

\* number of tasks that use the one channel
MaxTasks == 2

(***************************************************************************)
(* Values and types.  A value is [ty, v]; v is a sequence of naturals:      *)
(* <<>> for unit, <<0>>/<<1>> for bool, <<n>> for u8 and u32, the elements  *)
(* for Vec<u8>.                                                             *)
(***************************************************************************)
Types == {"Unit", "Bool", "U8", "U32", "Vec"}

Val(t, s) == [ty |-> t, v |-> s]

NoVal == Val("None", <<>>)

UnitVal == Val("Unit", <<>>)

VecOf(n) == [i \in 1..n |-> 6 + i]

\* the messages callers send: every type, encodings of the lengths 0, 1,
\* MAX_MESSAGE_LEN - 1 and MAX_MESSAGE_LEN, and one that is too long
SendValues ==
    {UnitVal, Val("Bool", <<1>>), Val("U8", <<2>>), Val("U32", <<300>>)}
    \cup {Val("Vec", VecOf(n)) : n \in (MAX_MESSAGE_LEN - 2)..MAX_MESSAGE_LEN}

(***************************************************************************)
(* bincode::options(): little endian, varint integer encoding, trailing     *)
(* bytes rejected; with_limit(n) bounds the bytes written or read.          *)
(***************************************************************************)
LE(n, k) == [i \in 1..k |-> (n \div (256 ^ (i - 1))) % 256]

RECURSIVE FromLE(_)
FromLE(s) == IF s = <<>> THEN 0 ELSE s[1] + 256 * FromLE(Tail(s))

\* VarintEncoding: one byte below 251, else a marker and a fixed width
\* (the values of the model stay below 2^31)
Varint(n) ==
    IF n < 251 THEN <<n>>
    ELSE IF n < 65536 THEN <<251>> \o LE(n, 2)
    ELSE <<252>> \o LE(n, 4)

\* the bytes bincode writes for a value
Encode(val) ==
    CASE val.ty = "Unit" -> <<>>
      [] val.ty = "Bool" -> <<val.v[1]>>
      [] val.ty = "U8"   -> <<val.v[1]>>
      [] val.ty = "U32"  -> Varint(val.v[1])
      [] val.ty = "Vec"  -> Varint(Len(val.v)) \o val.v

\* reads one varint from the front of bytes: [err, val, wide, used]; wide
\* says that the value does not fit 32 bits
ReadVarint(bytes) ==
    LET rv(e, x, wd, u) == [err |-> e, val |-> x, wide |-> wd, used |-> u]
    IN  IF Len(bytes) = 0 THEN rv("UnexpectedEof", 0, FALSE, 0)
        ELSE LET b == bytes[1]
                 w == CASE b = 251 -> 2 [] b = 252 -> 4 [] b = 253 -> 8
                        [] OTHER -> 0
             IN  IF b < 251 THEN rv("", b, FALSE, 1)
                 ELSE IF b > 253 THEN rv("InvalidInt", 0, FALSE, 1)
                 ELSE IF Len(bytes) < 1 + w
                      THEN rv("UnexpectedEof", 0, FALSE, Len(bytes))
                 ELSE IF w = 8
                      THEN rv("", FromLE(SubSeq(bytes, 2, 5)),
                              \E i \in 6..9 : bytes[i] # 0, 9)
                 ELSE rv("", FromLE(SubSeq(bytes, 2, 1 + w)), FALSE, 1 + w)

DecOk(val) == [err |-> "", val |-> val]

DecErr(e) == [err |-> e, val |-> NoVal]

\* bincode's Deserialize for type ty from exactly these bytes, reading at
\* most limit bytes
Decode(ty, bytes, limit) ==
    CASE ty = "Unit" ->
           IF Len(bytes) > 0 THEN DecErr("TrailingBytes") ELSE DecOk(UnitVal)
      [] ty = "Bool" ->
           IF limit < 1 THEN DecErr("SizeLimit")
           ELSE IF Len(bytes) < 1 THEN DecErr("UnexpectedEof")
           ELSE IF bytes[1] > 1 THEN DecErr("InvalidBoolEncoding")
           ELSE IF Len(bytes) > 1 THEN DecErr("TrailingBytes")
           ELSE DecOk(Val("Bool", <<bytes[1]>>))
      [] ty = "U8" ->
           IF limit < 1 THEN DecErr("SizeLimit")
           ELSE IF Len(bytes) < 1 THEN DecErr("UnexpectedEof")
           ELSE IF Len(bytes) > 1 THEN DecErr("TrailingBytes")
           ELSE DecOk(Val("U8", <<bytes[1]>>))
      [] ty = "U32" ->
           LET r == ReadVarint(bytes)
           IN  IF r.err # "" THEN DecErr(r.err)
               ELSE IF r.used > limit THEN DecErr("SizeLimit")
               ELSE IF r.wide THEN DecErr("InvalidCast")
               ELSE IF Len(bytes) > r.used THEN DecErr("TrailingBytes")
               ELSE DecOk(Val("U32", <<r.val>>))
      [] ty = "Vec" ->
           LET r == ReadVarint(bytes)
               rest == SubSeq(bytes, r.used + 1, Len(bytes))
           IN  IF r.err # "" THEN DecErr(r.err)
               ELSE IF r.wide \/ r.used + r.val > limit
                    THEN DecErr("SizeLimit")
               ELSE IF Len(rest) < r.val THEN DecErr("UnexpectedEof")
               ELSE IF Len(rest) > r.val THEN DecErr("TrailingBytes")
               ELSE DecOk(Val("Vec", rest))

\* fn bincode_config(): the byte limit of the codec
\* a limit that excludes the transport's maximum (with_limit(MAX - 1))
bincode_config_exclusive == MAX_MESSAGE_LEN - 1

bincode_config == MAX_MESSAGE_LEN

\* Options::serialize_into(&mut w, msg) on w = &mut buf[..]: the size check
\* against the limit comes first and writes nothing; the write into the
\* slice stops with an error at the end of the slice.  [err, buf, remaining]
serialize_into(limit, buf, msg) ==
    LET enc == Encode(msg)
        n   == IF Len(enc) < Len(buf) THEN Len(enc) ELSE Len(buf)
        out == [i \in 1..Len(buf) |-> IF i <= n THEN enc[i] ELSE buf[i]]
    IN  IF Len(enc) > limit
        THEN [err |-> "SizeLimit", buf |-> buf, remaining |-> Len(buf)]
        ELSE IF Len(enc) > Len(buf)
        THEN [err |-> "WriteZero", buf |-> out, remaining |-> 0]
        ELSE [err |-> "", buf |-> out, remaining |-> Len(buf) - n]

\* deserialize that accepts trailing bytes (allow_trailing_bytes): it decodes
\* the shortest prefix that is a value
deserialize_lax(limit, ty, bytes) ==
    LET ks == {k \in 0..Len(bytes) :
                 Decode(ty, SubSeq(bytes, 1, k), limit).err = ""}
    IN  IF ks = {} THEN Decode(ty, bytes, limit)
        ELSE Decode(ty, SubSeq(bytes, 1, CHOOSE k \in ks : \A j \in ks : k <= j),
                    limit)

\* Options::deserialize(bytes)
deserialize(limit, ty, bytes) == Decode(ty, bytes, limit)

(***************************************************************************)
(* The underlying UnreliableChannel (crate::unreliable_channel), seen       *)
(* through the interface the wrapper uses: send coalesces messages into the *)
(* outgoing packet, flush hands that packet to the outgoing packet sink,    *)
(* recv copies the next message of the incoming packets into the caller's   *)
(* buffer.  A packet is a sequence of messages.  A message in transit is    *)
(* [bytes, of]: its bytes and, as an auxiliary tag the code never reads,    *)
(* the value the sender encoded.  BadItem stands for bytes that do not      *)
(* frame a message.                                                         *)
(***************************************************************************)
Item(bytes, of) == [bytes |-> bytes, of |-> of]

BadItem == Item(<<256>>, NoVal)

RECURSIVE PacketLen(_)
PacketLen(p) ==
    IF p = <<>> THEN 0
    ELSE FRAME_LEN + Len(Head(p).bytes) + PacketLen(Tail(p))

\* UnreliableChannel::new(packet_pool, incoming, outgoing)
channel_new ==
    [out_packet |-> <<>>, outgoing |-> <<>>, out_closed |-> FALSE,
     in_packet |-> <<>>, incoming |-> <<>>, in_closed |-> FALSE]

\* UnreliableChannel::flush: [ch, kind]; "Pending" while the sink is full
channel_flush(ch) ==
    IF ch.out_closed THEN [ch |-> ch, kind |-> "Disconnected"]
    ELSE IF ch.out_packet = <<>> THEN [ch |-> ch, kind |-> "Ok"]
    ELSE IF Len(ch.outgoing) >= MaxQueue THEN [ch |-> ch, kind |-> "Pending"]
    ELSE [ch |-> [ch EXCEPT !.outgoing = Append(@, ch.out_packet),
                            !.out_packet = <<>>],
          kind |-> "Ok"]

\* UnreliableChannel::send(msg): [ch, kind]; of is the tag of msg
channel_send(ch, msg, of) ==
    IF Len(msg) > MAX_MESSAGE_LEN THEN [ch |-> ch, kind |-> "TooBig"]
    ELSE IF ch.out_closed THEN [ch |-> ch, kind |-> "Disconnected"]
    ELSE LET f == IF PacketLen(ch.out_packet) + FRAME_LEN + Len(msg)
                        > MAX_PACKET_LEN
                  THEN channel_flush(ch)
                  ELSE [ch |-> ch, kind |-> "Ok"]
         IN  IF f.kind # "Ok" THEN f
             ELSE [ch |-> [f.ch EXCEPT !.out_packet = Append(@, Item(msg, of))],
                   kind |-> "Ok"]

\* UnreliableChannel::recv(buf): [ch, kind, len, buf, msg]; "Pending" while
\* no packet has arrived; msg is the message that was copied into buf
channel_recv(ch, buf) ==
    LET fail(c, k) ==
            [ch |-> c, kind |-> k, len |-> 0, buf |-> buf, msg |-> BadItem]
    IN  IF ch.in_closed THEN fail(ch, "Disconnected")
        ELSE IF ch.in_packet = <<>> /\ ch.incoming = <<>>
        THEN fail(ch, "Pending")
        ELSE LET c1 == IF ch.in_packet # <<>> THEN ch
                       ELSE [ch EXCEPT !.in_packet = Head(ch.incoming),
                                       !.incoming = Tail(@)]
                 m  == Head(c1.in_packet)
                 c2 == [c1 EXCEPT !.in_packet = Tail(@)]
             IN  IF m = BadItem
                 THEN fail([c1 EXCEPT !.in_packet = <<>>], "BadFormat")
                 ELSE IF Len(m.bytes) > Len(buf) THEN fail(c2, "TooBig")
                 ELSE [ch |-> c2, kind |-> "Ok", len |-> Len(m.bytes),
                       msg |-> m,
                       buf |-> [i \in 1..Len(buf) |->
                                  IF i <= Len(m.bytes) THEN m.bytes[i]
                                  ELSE buf[i]]]

(***************************************************************************)
(* Results of the wrapper's operations.                                     *)
(***************************************************************************)
Res(k, d, x) == [kind |-> k, detail |-> d, val |-> x]

Ok(x) == Res("Ok", "", x)

Err(k) == Res(k, "", NoVal)

\* the .await of the underlying operation has not completed
Pending == Err("Pending")

\* unreachable!(): the call panics
Panic == Err("Panic")

\* one call of the underlying channel, as the wrapper made it: arg is the
\* slice passed to send or the bytes recv copied out, of their tag, cap the
\* length of the buffer passed to recv, kind the outcome
Call(op, arg, of, cap, kind) ==
    [op |-> op, arg |-> arg, of |-> of, cap |-> cap, kind |-> kind]

\* from_inner_send_err that swallows the disconnection
from_inner_send_err_swallow(err) ==
    CASE err = "Disconnected" -> Ok(UnitVal)
      [] err = "TooBig" -> Panic

\* fn from_inner_send_err
from_inner_send_err(err) ==
    CASE err = "Disconnected" -> Err("Disconnected")
      [] err = "TooBig" -> Panic

\* fn from_inner_recv_err
from_inner_recv_err(err) ==
    CASE err = "Disconnected" -> Err("Disconnected")
      [] err = "BadFormat" -> Err("BadFormat")
      [] err = "TooBig" -> Panic

\* self.channel.send(..) / flush() .await.map_err(from_inner_send_err)
await_send(kind) ==
    CASE kind = "Ok" -> Ok(UnitVal)
      [] kind = "Pending" -> Pending
      [] OTHER -> from_inner_send_err(kind)

\* the error of self.channel.recv(..).await.map_err(from_inner_recv_err)?
await_recv_err(kind) ==
    IF kind = "Pending" THEN Pending ELSE from_inner_recv_err(kind)

(***************************************************************************)
(* UnreliableBincodeChannel: [channel, buffer].  Each operation yields the  *)
(* channel after the call, the result and the underlying calls it made.     *)
(***************************************************************************)
\* new with a buffer one byte short of the transport's maximum
new_short(ch) ==
    [channel |-> ch, buffer |-> [i \in 1..(MAX_MESSAGE_LEN - 1) |-> 0]]

\* new with a buffer one byte longer than the transport's maximum
new_long(ch) ==
    [channel |-> ch, buffer |-> [i \in 1..(MAX_MESSAGE_LEN + 1) |-> 0]]

\* UnreliableBincodeChannel::new
new(ch) == [channel |-> ch, buffer |-> [i \in 1..MAX_MESSAGE_LEN |-> 0]]

Out(self, res, calls) == [self |-> self, res |-> res, calls |-> calls]

\* send that goes on after a failed encode (the `?` is missing)
send_unchecked(self, msg) ==
    LET w         == serialize_into(bincode_config, self.buffer, msg)
        remaining == w.remaining
        written   == Len(w.buf) - remaining
        slice     == SubSeq(w.buf, 1, written)
        r         == channel_send(self.channel, slice, msg)
    IN  Out([channel |-> r.ch, buffer |-> w.buf],
            await_send(r.kind),
            <<Call("send", slice, msg, 0, r.kind)>>)

\* send that hands over the whole buffer (&self.buffer[..])
send_whole_buffer(self, msg) ==
    LET w == serialize_into(bincode_config, self.buffer, msg)
    IN  IF w.err # ""
        THEN Out([self EXCEPT !.buffer = w.buf],
                 Res("BincodeError", w.err, NoVal), <<>>)
        ELSE LET slice == w.buf
                 r     == channel_send(self.channel, slice, msg)
             IN  Out([channel |-> r.ch, buffer |-> w.buf],
                     await_send(r.kind),
                     <<Call("send", slice, msg, 0, r.kind)>>)

\* send that takes the slice before it encodes: it hands over what the
\* buffer held when the call began
send_stale_slice(self, msg) ==
    LET w == serialize_into(bincode_config, self.buffer, msg)
    IN  IF w.err # ""
        THEN Out([self EXCEPT !.buffer = w.buf],
                 Res("BincodeError", w.err, NoVal), <<>>)
        ELSE LET remaining == w.remaining
                 written   == Len(w.buf) - remaining
                 slice     == SubSeq(self.buffer, 1, written)
                 r         == channel_send(self.channel, slice, msg)
             IN  Out([channel |-> r.ch, buffer |-> w.buf],
                     await_send(r.kind),
                     <<Call("send", slice, msg, 0, r.kind)>>)

\* send that takes as written the position of the last non-zero byte of the
\* buffer instead of buffer.len() - remaining
send_trim_zeros(self, msg) ==
    LET w == serialize_into(bincode_config, self.buffer, msg)
    IN  IF w.err # ""
        THEN Out([self EXCEPT !.buffer = w.buf],
                 Res("BincodeError", w.err, NoVal), <<>>)
        ELSE LET nz      == {i \in DOMAIN w.buf : w.buf[i] # 0}
                 written == IF nz = {} THEN 0
                            ELSE CHOOSE i \in nz : \A j \in nz : j <= i
                 slice   == SubSeq(w.buf, 1, written)
                 r       == channel_send(self.channel, slice, msg)
             IN  Out([channel |-> r.ch, buffer |-> w.buf],
                     await_send(r.kind),
                     <<Call("send", slice, msg, 0, r.kind)>>)

\* UnreliableBincodeChannel::send
send(self, msg) ==
    LET w == serialize_into(bincode_config, self.buffer, msg)
    IN  IF w.err # ""
        THEN Out([self EXCEPT !.buffer = w.buf],
                 Res("BincodeError", w.err, NoVal), <<>>)
        ELSE LET remaining == w.remaining
                 written   == Len(w.buf) - remaining
                 slice     == SubSeq(w.buf, 1, written)
                 r         == channel_send(self.channel, slice, msg)
             IN  Out([channel |-> r.ch, buffer |-> w.buf],
                     await_send(r.kind),
                     <<Call("send", slice, msg, 0, r.kind)>>)

\* send from its suspension point on: the future of
\* self.channel.send(&self.buffer[0..written]) is polled again; the slice
\* is a borrow of the buffer, read when the underlying send takes it
send_poll(self, written, msg) ==
    LET slice == SubSeq(self.buffer, 1, written)
        r     == channel_send(self.channel, slice, msg)
    IN  Out([self EXCEPT !.channel = r.ch],
            await_send(r.kind),
            <<Call("send", slice, msg, 0, r.kind)>>)

\* flush that returns Ok without calling the underlying flush
flush_noop(self) == Out(self, Ok(UnitVal), <<>>)

\* flush that clears the buffer
flush_zeroing(self) ==
    LET r == channel_flush(self.channel)
    IN  Out([channel |-> r.ch, buffer |-> [i \in DOMAIN self.buffer |-> 0]],
            await_send(r.kind),
            <<Call("flush", <<>>, NoVal, 0, r.kind)>>)

\* UnreliableBincodeChannel::flush
flush(self) ==
    LET r == channel_flush(self.channel)
    IN  Out([self EXCEPT !.channel = r.ch],
            await_send(r.kind),
            <<Call("flush", <<>>, NoVal, 0, r.kind)>>)

\* recv that decodes the whole buffer (&self.buffer[..])
recv_whole_buffer(self, ty) ==
    LET r == channel_recv(self.channel, self.buffer)
        c == <<Call("recv", IF r.kind = "Ok" THEN r.msg.bytes ELSE <<>>,
                   r.msg.of, Len(self.buffer), r.kind)>>
        s == [channel |-> r.ch, buffer |-> r.buf]
    IN  IF r.kind # "Ok" THEN Out(s, await_recv_err(r.kind), c)
        ELSE LET d == deserialize(bincode_config, ty, s.buffer)
             IN  IF d.err # "" THEN Out(s, Res("BincodeError", d.err, NoVal), c)
                 ELSE Out(s, Ok(d.val), c)

\* recv that flushes the outgoing packet before it receives
recv_flushing(self, ty) ==
    LET f == channel_flush(self.channel)
        r == channel_recv(f.ch, self.buffer)
        c == <<Call("flush", <<>>, NoVal, 0, f.kind),
               Call("recv", IF r.kind = "Ok" THEN r.msg.bytes ELSE <<>>,
                    r.msg.of, Len(self.buffer), r.kind)>>
        s == [channel |-> r.ch, buffer |-> r.buf]
    IN  IF r.kind # "Ok" THEN Out(s, await_recv_err(r.kind), c)
        ELSE LET d == deserialize(bincode_config, ty,
                                  SubSeq(s.buffer, 1, r.len))
             IN  IF d.err # "" THEN Out(s, Res("BincodeError", d.err, NoVal), c)
                 ELSE Out(s, Ok(d.val), c)

\* recv that reports a decode failure as BadFormat
recv_badformat(self, ty) ==
    LET r == channel_recv(self.channel, self.buffer)
        c == <<Call("recv", IF r.kind = "Ok" THEN r.msg.bytes ELSE <<>>,
                   r.msg.of, Len(self.buffer), r.kind)>>
        s == [channel |-> r.ch, buffer |-> r.buf]
    IN  IF r.kind # "Ok" THEN Out(s, await_recv_err(r.kind), c)
        ELSE LET d == deserialize(bincode_config, ty,
                                  SubSeq(s.buffer, 1, r.len))
             IN  IF d.err # "" THEN Out(s, Err("BadFormat"), c)
                 ELSE Out(s, Ok(d.val), c)

\* recv that decodes one byte more than was received (&self.buffer[0..=len])
recv_inclusive_len(self, ty) ==
    LET r == channel_recv(self.channel, self.buffer)
        c == <<Call("recv", IF r.kind = "Ok" THEN r.msg.bytes ELSE <<>>,
                   r.msg.of, Len(self.buffer), r.kind)>>
        s == [channel |-> r.ch, buffer |-> r.buf]
    IN  IF r.kind # "Ok" THEN Out(s, await_recv_err(r.kind), c)
        ELSE LET len == IF r.len < Len(s.buffer) THEN r.len + 1 ELSE r.len
                 d   == deserialize(bincode_config, ty,
                                    SubSeq(s.buffer, 1, len))
             IN  IF d.err # "" THEN Out(s, Res("BincodeError", d.err, NoVal), c)
                 ELSE Out(s, Ok(d.val), c)

\* UnreliableBincodeChannel::recv::<T>
recv(self, ty) ==
    LET r == channel_recv(self.channel, self.buffer)
        c == <<Call("recv", IF r.kind = "Ok" THEN r.msg.bytes ELSE <<>>,
                   r.msg.of, Len(self.buffer), r.kind)>>
        s == [channel |-> r.ch, buffer |-> r.buf]
    IN  IF r.kind # "Ok" THEN Out(s, await_recv_err(r.kind), c)
        ELSE LET len == r.len
                 d   == deserialize(bincode_config, ty,
                                    SubSeq(s.buffer, 1, len))
             IN  IF d.err # "" THEN Out(s, Res("BincodeError", d.err, NoVal), c)
                 ELSE Out(s, Ok(d.val), c)

(***************************************************************************)
(* UnreliableTypedChannel<T>: [channel, phantom], an                        *)
(* UnreliableBincodeChannel and the marker of the one message type.         *)
(***************************************************************************)
\* UnreliableTypedChannel::new
typed_new(T, ch) == [channel |-> new(ch), phantom |-> T]

TOut(self, o) ==
    Out([self EXCEPT !.channel = o.self], o.res, o.calls)

\* typed flush that returns Ok without delegating
typed_flush_noop(self) == Out(self, Ok(UnitVal), <<>>)

\* UnreliableTypedChannel::flush
typed_flush(self) == TOut(self, flush(self.channel))

\* UnreliableTypedChannel::send, msg: &T
typed_send(self, msg) == TOut(self, send(self.channel, msg))

\* UnreliableTypedChannel::recv -> Result<T, RecvError>
typed_recv(self) == TOut(self, recv(self.channel, self.phantom))

(***************************************************************************)
(* State.  bc is the UnreliableBincodeChannel under test, last describes    *)
(* the most recently completed call (operation, argument, requested type,   *)
(* result, underlying calls made), nops counts the completed calls.  tc is  *)
(* an UnreliableTypedChannel and tlast its most recently completed call;    *)
(* only SpecTyped uses them.  futures[t] is the future of a call that task  *)
(* t has begun and that is suspended in the .await of the underlying call   *)
(* (Idle when t has none); gone describes a call that was abandoned at its  *)
(* suspension point and whether a call has completed since; only SpecAsync  *)
(* changes them.                                                            *)
(***************************************************************************)
VARIABLES bc, last, nops, tc, tlast, futures, gone

vars == <<bc, last, nops, tc, tlast, futures, gone>>

\* the tasks that share the channel
Tasks == 1..MaxTasks

\* what a suspended future holds: the operation, the message or the type it
\* was called with, and for send the length of the slice it has encoded
Future(op, msg, ty, written) ==
    [op |-> op, msg |-> msg, ty |-> ty, written |-> written]

Idle == Future("idle", NoVal, "None", 0)

\* a receiver that does not exclude other borrows (&self)
shared_self(fs) == TRUE

\* the receiver &mut self of send, flush and recv: the call can begin only
\* when no future holds a borrow of the channel
mut_self(fs) == \A t \in DOMAIN fs : fs[t] = Idle

Gone(phase, f) == [phase |-> phase, call |-> f]

NotGone == Gone("none", Idle)

\* gone after a call has completed
Followed(g) ==
    IF g.phase = "abandoned" THEN Gone("followed", g.call) ELSE NotGone

NoCall ==
    [op |-> "none", arg |-> NoVal, ty |-> "None", res |-> Ok(UnitVal),
     calls |-> <<>>]

Init ==
    /\ bc = new(channel_new)
    /\ last = NoCall
    /\ nops = 0
    /\ tc = typed_new("Unit", channel_new)
    /\ tlast = NoCall
    /\ futures = [t \in Tasks |-> Idle]
    /\ gone = NotGone

\* a call that ran to completion with outcome o
Done(op, arg, ty, o) ==
    /\ nops < MaxOps
    /\ o.res # Pending
    /\ bc' = o.self
    /\ last' = [op |-> op, arg |-> arg, ty |-> ty, res |-> o.res,
                calls |-> o.calls]
    /\ nops' = nops + 1

\* the owner calls send(&msg) and the call completes
Send(msg) ==
    /\ Done("send", msg, msg.ty, send(bc, msg))
    /\ UNCHANGED <<tc, tlast, futures, gone>>

\* the owner calls flush() and the call completes
Flush ==
    /\ Done("flush", NoVal, "None", flush(bc))
    /\ UNCHANGED <<tc, tlast, futures, gone>>

\* the owner calls recv::<ty>() and the call completes
Recv(ty) ==
    /\ Done("recv", NoVal, ty, recv(bc, ty))
    /\ UNCHANGED <<tc, tlast, futures, gone>>

(***************************************************************************)
(* The transport.  The packets of the outgoing sink travel to a peer that   *)
(* runs the same code; the model loops them back into the incoming packet   *)
(* source of the channel, so the receiving side is this recv with a buffer  *)
(* that earlier sends and recvs have used.  The transport may deliver any   *)
(* queued packet (reordering), damage it, or lose it; either packet stream  *)
(* can be closed at any time.  Each operator gives the channel c after the  *)
(* transport's step.                                                        *)
(***************************************************************************)
Remove(q, i) == SubSeq(q, 1, i - 1) \o SubSeq(q, i + 1, Len(q))

CanDeliver(c, i) ==
    /\ i \in 1..Len(c.channel.outgoing)
    /\ Len(c.channel.incoming) < MaxQueue

Delivered(c, i, damaged) ==
    LET p == IF damaged THEN <<BadItem>> ELSE c.channel.outgoing[i]
    IN  [c EXCEPT !.channel.outgoing = Remove(@, i),
                  !.channel.incoming = Append(@, p)]

Dropped(c, i) == [c EXCEPT !.channel.outgoing = Remove(@, i)]

OutClosed(c) == [c EXCEPT !.channel.out_closed = TRUE]

InClosed(c) == [c EXCEPT !.channel.in_closed = TRUE]

Deliver(i, damaged) ==
    /\ CanDeliver(bc, i)
    /\ bc' = Delivered(bc, i, damaged)
    /\ UNCHANGED <<last, nops, tc, tlast, futures, gone>>

Drop(i) ==
    /\ i \in 1..Len(bc.channel.outgoing)
    /\ bc' = Dropped(bc, i)
    /\ UNCHANGED <<last, nops, tc, tlast, futures, gone>>

CloseOutgoing ==
    /\ ~bc.channel.out_closed
    /\ bc' = OutClosed(bc)
    /\ UNCHANGED <<last, nops, tc, tlast, futures, gone>>

CloseIncoming ==
    /\ ~bc.channel.in_closed
    /\ bc' = InClosed(bc)
    /\ UNCHANGED <<last, nops, tc, tlast, futures, gone>>

Next ==
    \/ \E msg \in SendValues : Send(msg)
    \/ Flush
    \/ \E ty \in Types : Recv(ty)
    \/ \E i \in 1..MaxQueue, d \in BOOLEAN : Deliver(i, d)
    \/ \E i \in 1..MaxQueue : Drop(i)
    \/ CloseOutgoing
    \/ CloseIncoming

Spec == Init /\ [][Next]_vars

(***************************************************************************)
(* SpecTyped: an UnreliableTypedChannel<T> (tc) and an                      *)
(* UnreliableBincodeChannel used only with T (bc) are given the same calls  *)
(* and the same transport behaviour, step by step.  Besides the looped back *)
(* packets a peer's message of another type may arrive when the incoming    *)
(* queue is empty.                                                          *)
(***************************************************************************)
InitTyped ==
    /\ bc = new(channel_new)
    /\ last = NoCall
    /\ nops = 0
    /\ \E T \in Types : tc = typed_new(T, channel_new)
    /\ tlast = NoCall
    /\ futures = [t \in Tasks |-> Idle]
    /\ gone = NotGone

\* the same call on the typed channel, with outcome o
TDone(op, arg, o) ==
    /\ o.res # Pending
    /\ tc' = o.self
    /\ tlast' = [op |-> op, arg |-> arg, ty |-> tc.phantom, res |-> o.res,
                 calls |-> o.calls]

BothSend(msg) ==
    /\ msg.ty = tc.phantom
    /\ Done("send", msg, tc.phantom, send(bc, msg))
    /\ TDone("send", msg, typed_send(tc, msg))
    /\ UNCHANGED <<futures, gone>>

BothFlush ==
    /\ Done("flush", NoVal, tc.phantom, flush(bc))
    /\ TDone("flush", NoVal, typed_flush(tc))
    /\ UNCHANGED <<futures, gone>>

BothRecv ==
    /\ Done("recv", NoVal, tc.phantom, recv(bc, tc.phantom))
    /\ TDone("recv", NoVal, typed_recv(tc))
    /\ UNCHANGED <<futures, gone>>

BothDeliver(i, damaged) ==
    /\ CanDeliver(bc, i) /\ CanDeliver(tc.channel, i)
    /\ bc' = Delivered(bc, i, damaged)
    /\ tc' = [tc EXCEPT !.channel = Delivered(@, i, damaged)]
    /\ UNCHANGED <<last, nops, tlast, futures, gone>>

BothDrop(i) ==
    /\ i \in 1..Len(bc.channel.outgoing)
    /\ i \in 1..Len(tc.channel.channel.outgoing)
    /\ bc' = Dropped(bc, i)
    /\ tc' = [tc EXCEPT !.channel = Dropped(@, i)]
    /\ UNCHANGED <<last, nops, tlast, futures, gone>>

\* the peer's message v arrives in a packet of its own
Injected(c, v) ==
    [c EXCEPT !.channel.incoming = Append(@, <<Item(Encode(v), v)>>)]

\* what the peer sends: a byte that is no bool, and a three byte varint
PeerValues == {Val("U8", <<2>>), Val("U32", <<300>>)}

BothInject(v) ==
    /\ bc.channel.incoming = <<>>
    /\ tc.channel.channel.incoming = <<>>
    /\ bc' = Injected(bc, v)
    /\ tc' = [tc EXCEPT !.channel = Injected(@, v)]
    /\ UNCHANGED <<last, nops, tlast, futures, gone>>

BothCloseOutgoing ==
    /\ ~bc.channel.out_closed
    /\ bc' = OutClosed(bc)
    /\ tc' = [tc EXCEPT !.channel = OutClosed(@)]
    /\ UNCHANGED <<last, nops, tlast, futures, gone>>

BothCloseIncoming ==
    /\ ~bc.channel.in_closed
    /\ bc' = InClosed(bc)
    /\ tc' = [tc EXCEPT !.channel = InClosed(@)]
    /\ UNCHANGED <<last, nops, tlast, futures, gone>>

NextTyped ==
    \/ \E msg \in SendValues : BothSend(msg)
    \/ BothFlush
    \/ BothRecv
    \/ \E i \in 1..MaxQueue, d \in BOOLEAN : BothDeliver(i, d)
    \/ \E i \in 1..MaxQueue : BothDrop(i)
    \/ \E v \in PeerValues : BothInject(v)
    \/ BothCloseOutgoing
    \/ BothCloseIncoming

SpecTyped == InitTyped /\ [][NextTyped]_vars

(***************************************************************************)
(* SpecAsync: the calls of bc with their suspension points.  Each of send,  *)
(* flush and recv has one .await, that of the underlying call.  A task      *)
(* begins a call, which runs to that .await; when the underlying call is    *)
(* not ready the future stays suspended, holding its borrow of the channel, *)
(* until it is polled again with the underlying call ready (Wake) or is     *)
(* dropped (Abandon).  An abandoned underlying call has changed nothing.    *)
(***************************************************************************)
\* the future of task t was polled with outcome o: it completes or suspends
Polled(t, op, msg, ty, written, o) ==
    /\ bc' = o.self
    /\ IF o.res = Pending
       THEN /\ futures' = [futures EXCEPT ![t] = Future(op, msg, ty, written)]
            /\ UNCHANGED <<last, nops, gone>>
       ELSE /\ futures' = [futures EXCEPT ![t] = Idle]
            /\ last' = [op |-> op, arg |-> msg, ty |-> ty, res |-> o.res,
                        calls |-> o.calls]
            /\ nops' = nops + 1
            /\ gone' = Followed(gone)
    /\ UNCHANGED <<tc, tlast>>

\* task t can begin a call on the channel
Begins(t) ==
    /\ nops < MaxOps
    /\ futures[t] = Idle
    /\ mut_self(futures)

\* task t calls send(&msg): encode, then the underlying send is polled
TaskSend(t, msg) ==
    /\ Begins(t)
    /\ LET o       == send(bc, msg)
           written == IF o.calls = <<>> THEN 0 ELSE Len(o.calls[1].arg)
       IN  Polled(t, "send", msg, msg.ty, written, o)

\* task t calls flush()
TaskFlush(t) ==
    /\ Begins(t)
    /\ Polled(t, "flush", NoVal, "None", 0, flush(bc))

\* task t calls recv::<ty>()
TaskRecv(t, ty) ==
    /\ Begins(t)
    /\ Polled(t, "recv", NoVal, ty, 0, recv(bc, ty))

\* the suspended future of task t is polled again and completes
Wake(t) ==
    /\ futures[t] # Idle
    /\ LET f == futures[t]
           o == CASE f.op = "send" -> send_poll(bc, f.written, f.msg)
                  [] f.op = "flush" -> flush(bc)
                  [] f.op = "recv" -> recv(bc, f.ty)
       IN  /\ o.res # Pending
           /\ Polled(t, f.op, f.msg, f.ty, f.written, o)

\* task t drops its suspended future
Abandon(t) ==
    /\ futures[t] # Idle
    /\ futures' = [futures EXCEPT ![t] = Idle]
    /\ gone' = Gone("abandoned", futures[t])
    /\ UNCHANGED <<bc, last, nops, tc, tlast>>

\* the messages and types the tasks use: messages of one byte, of
\* MAX_MESSAGE_LEN bytes and of one byte more
TaskValues ==
    {Val("U8", <<2>>)} \cup
    {Val("Vec", VecOf(n)) : n \in (MAX_MESSAGE_LEN - 1)..MAX_MESSAGE_LEN}

TaskTypes == {v.ty : v \in TaskValues}

NextAsync ==
    \/ \E t \in Tasks, msg \in TaskValues : TaskSend(t, msg)
    \/ \E t \in Tasks : TaskFlush(t)
    \/ \E t \in Tasks, ty \in TaskTypes : TaskRecv(t, ty)
    \/ \E t \in Tasks : Wake(t)
    \/ \E t \in Tasks : Abandon(t)
    \/ \E i \in 1..MaxQueue, d \in BOOLEAN : Deliver(i, d)
    \/ \E i \in 1..MaxQueue : Drop(i)
    \/ CloseOutgoing
    \/ CloseIncoming

SpecAsync == Init /\ [][NextAsync]_vars

(***************************************************************************)
(* Properties.                                                              *)
(***************************************************************************)
\* the encoding of v is within the codec's limit
Fits(v) == Len(Encode(v)) <= MAX_MESSAGE_LEN

\* this step is the completion of a call of op
Completes(op) == nops' = nops + 1 /\ last'.op = op

\* the slices a call handed to the underlying send
Slices(calls) ==
    LET s == SelectSeq(calls, LAMBDA c : c.op = "send")
    IN  [i \in 1..Len(s) |-> s[i].arg]

\* C1: a send of a message whose encoding is longer than MAX_MESSAGE_LEN
\* returns BincodeError, makes no call of the underlying channel and leaves
\* the coalesced and the transmitted outgoing messages as they were.
C1_OversizeSendRejected ==
    [][(Completes("send") /\ ~Fits(last'.arg)) =>
         /\ last'.res.kind = "BincodeError"
         /\ last'.calls = <<>>
         /\ bc'.channel.out_packet = bc.channel.out_packet
         /\ bc'.channel.outgoing = bc.channel.outgoing]_vars

\* an oversize send was rejected while an earlier message was coalesced
C1_Witness ==
    /\ last.op = "send" /\ ~Fits(last.arg)
    /\ last.res.kind = "BincodeError"
    /\ bc.channel.out_packet # <<>>

\* C2: no call ever panics in from_inner_send_err / from_inner_recv_err: the
\* underlying channel never reports TooBig, every slice handed to the
\* underlying send is at most MAX_MESSAGE_LEN long and the buffer handed to
\* the underlying recv is MAX_MESSAGE_LEN long.
C2_TooBigUnreachable ==
    /\ last.res.kind # "Panic"
    /\ \A i \in DOMAIN last.calls :
         LET c == last.calls[i]
         IN  /\ c.kind # "TooBig"
             /\ c.op = "send" => Len(c.arg) <= MAX_MESSAGE_LEN
             /\ c.op = "recv" => c.cap = MAX_MESSAGE_LEN

\* a message of exactly MAX_MESSAGE_LEN bytes was sent and received
C2_Witness ==
    /\ last.op = "recv" /\ last.res.kind = "Ok"
    /\ Len(last.calls[1].arg) = MAX_MESSAGE_LEN

\* C3: a send whose message encodes within the limit hands the underlying
\* send exactly one slice, the encoding of that message (its exact length,
\* no byte of an earlier use of the buffer); a send whose encoding fails, a
\* flush and a recv hand it none.
C3_SlicesAreEncodings ==
    Slices(last.calls) =
        IF last.op = "send" /\ Fits(last.arg) THEN <<Encode(last.arg)>>
        ELSE <<>>

\* a short message was sent from a buffer that holds bytes of an earlier,
\* longer use beyond the written part
C3_Witness ==
    /\ last.op = "send" /\ Fits(last.arg)
    /\ Slices(last.calls) = <<Encode(last.arg)>>
    /\ \E i \in (Len(Encode(last.arg)) + 1)..Len(bc.buffer) : bc.buffer[i] # 0

\* C4: when recv::<T> is handed, undamaged, a message that a send encoded
\* from a value v of type T, it returns Ok(v).
C4_RoundTrip ==
    (/\ last.op = "recv"
     /\ last.calls[1].kind = "Ok"
     /\ last.calls[1].of.ty = last.ty)
    => last.res = Ok(last.calls[1].of)

\* a u32 that encodes to three bytes came back from recv::<u32>
C4_Witness ==
    /\ last.op = "recv" /\ last.ty = "U32"
    /\ last.calls[1].of = Val("U32", <<300>>)
    /\ last.res = Ok(Val("U32", <<300>>))

\* the result kind the translation table prescribes for the last call
Expected ==
    LET c == last.calls
    IN  CASE last.op = "send" ->
               IF ~Fits(last.arg) THEN "BincodeError" ELSE c[1].kind
          [] last.op = "flush" -> c[1].kind
          [] last.op = "recv" ->
               IF c[1].kind # "Ok" THEN c[1].kind
               ELSE IF Decode(last.ty, c[1].arg, MAX_MESSAGE_LEN).err # ""
                    THEN "BincodeError"
               ELSE "Ok"
          [] OTHER -> "Ok"

\* C5: every call makes at most one call of the underlying channel, of its
\* own operation, and returns the translation of what happened: underlying
\* Disconnected as Disconnected, underlying BadFormat as BadFormat, an encode
\* failure and a decode failure as BincodeError, Ok only when the underlying
\* call and the codec succeeded.
C5_ErrorsTranslatedExactly ==
    /\ Len(last.calls) <= 1
    /\ \A i \in DOMAIN last.calls : last.calls[i].op = last.op
    /\ last.op = "send" => (Len(last.calls) = 1 <=> Fits(last.arg))
    /\ last.op \in {"flush", "recv"} => Len(last.calls) = 1
    /\ last.res.kind \in {"Ok", "Disconnected", "BadFormat", "BincodeError"}
    /\ last.res.kind = Expected

\* a well-framed message that does not decode was reported as BincodeError
C5_Witness ==
    /\ last.op = "recv" /\ last.calls[1].kind = "Ok"
    /\ last.res.kind = "BincodeError"

\* C6 as stated: a send called with the outgoing endpoint closed returns
\* Disconnected, a recv called with the incoming endpoint closed returns
\* Disconnected.
C6_Original ==
    [][/\ (Completes("send") /\ bc.channel.out_closed)
            => last'.res.kind = "Disconnected"
       /\ (Completes("recv") /\ bc.channel.in_closed)
            => last'.res.kind = "Disconnected"]_vars

\* C6 amended: a send called with the outgoing endpoint closed returns
\* Disconnected when its message encodes within the limit and BincodeError
\* when it does not; a recv called with the incoming endpoint closed returns
\* Disconnected.
C6_DisconnectionPropagates ==
    [][/\ (Completes("send") /\ bc.channel.out_closed)
            => last'.res.kind =
                 IF Fits(last'.arg) THEN "Disconnected" ELSE "BincodeError"
       /\ (Completes("recv") /\ bc.channel.in_closed)
            => last'.res.kind = "Disconnected"]_vars

\* a message that encodes was sent on a closed outgoing endpoint
C6_Witness ==
    /\ last.op = "send" /\ Fits(last.arg)
    /\ bc.channel.out_closed
    /\ last.calls[1].kind = "Disconnected"
    /\ last.res.kind = "Disconnected"

\* C7 as stated: a message sent as type A and received as another type B
\* makes recv fail with BadFormat or BincodeError.
C7_Original ==
    (/\ last.op = "recv"
     /\ last.calls[1].kind = "Ok"
     /\ last.calls[1].of.ty # last.ty)
    => last.res.kind \in {"BadFormat", "BincodeError"}

\* C7 amended: a message sent as type A and received as another type B
\* makes recv fail with BincodeError exactly when the bytes sent are not a
\* complete encoding of a value of B; when they are, recv returns Ok with
\* that value of B.
C7_MismatchDecodesBytes ==
    (/\ last.op = "recv"
     /\ last.calls[1].kind = "Ok"
     /\ last.calls[1].of.ty # last.ty)
    => LET d == Decode(last.ty, Encode(last.calls[1].of), MAX_MESSAGE_LEN)
       IN  last.res = IF d.err = "" THEN Ok(d.val)
                      ELSE Res("BincodeError", d.err, NoVal)

\* a u32 of three bytes was received as another type and rejected
C7_Witness ==
    /\ last.op = "recv" /\ last.calls[1].kind = "Ok"
    /\ last.calls[1].of = Val("U32", <<300>>)
    /\ last.ty # "U32"
    /\ last.res.kind = "BincodeError"

\* C8: a flush that returns Ok leaves no message coalesced: the outgoing
\* packet is empty and the messages it held have been handed to the outgoing
\* packet sink as one packet.
C8_FlushHandsOver ==
    [][(Completes("flush") /\ last'.res.kind = "Ok") =>
         /\ bc'.channel.out_packet = <<>>
         /\ bc.channel.out_packet # <<>> =>
              bc'.channel.outgoing =
                  Append(bc.channel.outgoing, bc.channel.out_packet)
         /\ bc.channel.out_packet = <<>> =>
              bc'.channel.outgoing = bc.channel.outgoing]_vars

\* a flush handed two coalesced messages to the sink
C8_Witness ==
    /\ last.op = "flush" /\ last.res.kind = "Ok"
    /\ bc.channel.out_packet = <<>>
    /\ \E i \in DOMAIN bc.channel.outgoing : Len(bc.channel.outgoing[i]) = 2

\* the messages waiting in the incoming packets of channel ch
RECURSIVE Flat(_)
Flat(q) == IF q = <<>> THEN <<>> ELSE Head(q) \o Flat(Tail(q))

Range(f) == {f[i] : i \in DOMAIN f}

Arrived(ch) == Range(ch.in_packet) \cup Range(Flat(ch.incoming))

\* C9: a message a send has coalesced stays in the outgoing packet, and the
\* sink receives nothing, in every step that is not the completion of a
\* flush or of a further send; a recv returns only messages that had
\* arrived in the incoming packets.  So after a send that returned Ok and no
\* flush, the message is never received.
C9_NoTransmissionWithoutFlush ==
    [][/\ (~Completes("send") /\ ~Completes("flush")) =>
            /\ bc'.channel.out_packet = bc.channel.out_packet
            /\ Len(bc'.channel.outgoing) <= Len(bc.channel.outgoing)
       /\ (Completes("recv") /\ last'.calls[1].kind = "Ok") =>
            \E m \in Arrived(bc.channel) :
               m.bytes = last'.calls[1].arg /\ m.of = last'.calls[1].of]_vars

\* a send returned Ok and its message is coalesced, neither in the sink nor
\* in the incoming packets
C9_Witness ==
    /\ last.op = "send" /\ last.res.kind = "Ok"
    /\ Item(Encode(last.arg), last.arg) \in Range(bc.channel.out_packet)
    /\ bc.channel.outgoing = <<>>
    /\ Arrived(bc.channel) = {}

\* C10: the typed channel and the bincode channel used with its type return
\* the same results and make the same underlying calls in the same order,
\* and the typed channel's state is the bincode channel's state and the
\* type marker, nothing else.
C10_TypedEquivalence ==
    /\ tlast = last
    /\ tc = [channel |-> bc, phantom |-> tc.phantom]

\* both channels received a Vec<u8> sent through them
C10_Witness ==
    /\ tc.phantom = "Vec"
    /\ tlast.op = "recv" /\ tlast.res.kind = "Ok"
    /\ tlast.calls[1].of \in SendValues
    /\ tlast.res = last.res
    /\ tc.channel.channel.out_packet # <<>>

\* C13: in every reachable state the buffer has exactly MAX_MESSAGE_LEN
\* bytes; whatever message a send encodes and whatever message a recv
\* copies in from that state, the buffer afterwards still has exactly
\* MAX_MESSAGE_LEN bytes (nothing is written beyond it), the encoder's
\* remaining is between 0 and the buffer length, and written = buffer
\* length - remaining is between 0 and MAX_MESSAGE_LEN.
C13_BufferInvariant ==
    /\ DOMAIN bc.buffer = 1..MAX_MESSAGE_LEN
    /\ \A msg \in SendValues :
         LET w         == serialize_into(bincode_config, bc.buffer, msg)
             remaining == w.remaining
             written   == Len(w.buf) - remaining
         IN  /\ DOMAIN w.buf = 1..MAX_MESSAGE_LEN
             /\ remaining \in 0..Len(w.buf)
             /\ written \in 0..MAX_MESSAGE_LEN
    /\ DOMAIN send(bc, UnitVal).self.buffer = 1..MAX_MESSAGE_LEN
    /\ DOMAIN flush(bc).self.buffer = 1..MAX_MESSAGE_LEN
    /\ \A ty \in Types : DOMAIN recv(bc, ty).self.buffer = 1..MAX_MESSAGE_LEN

\* a recv has filled the buffer up to its last byte
C13_Witness ==
    /\ nops >= 2
    /\ last.op = "recv" /\ last.calls[1].kind = "Ok"
    /\ bc.buffer = last.calls[1].arg
    /\ Len(bc.buffer) = MAX_MESSAGE_LEN

\* C14: the encode step of send succeeds exactly when the encoding of the
\* message is at most MAX_MESSAGE_LEN long; a message that encodes to
\* exactly MAX_MESSAGE_LEN bytes is handed to the underlying send as one
\* slice of MAX_MESSAGE_LEN bytes, a message that encodes to
\* MAX_MESSAGE_LEN + 1 bytes is rejected with BincodeError.
C14_LimitInclusive ==
    last.op = "send" =>
        LET n == Len(Encode(last.arg))
        IN  /\ last.res.kind # "BincodeError" <=> n <= MAX_MESSAGE_LEN
            /\ n = MAX_MESSAGE_LEN =>
                 /\ Len(last.calls) = 1
                 /\ last.calls[1].op = "send"
                 /\ Len(last.calls[1].arg) = MAX_MESSAGE_LEN
            /\ n = MAX_MESSAGE_LEN + 1 =>
                 /\ last.res.kind = "BincodeError"
                 /\ last.calls = <<>>

\* a message that encodes to exactly MAX_MESSAGE_LEN bytes was sent and the
\* underlying send accepted it
C14_Witness ==
    /\ last.op = "send"
    /\ Len(Encode(last.arg)) = MAX_MESSAGE_LEN
    /\ last.res.kind = "Ok"
    /\ Slices(last.calls) = <<Encode(last.arg)>>

\* C15: the result of a recv that was handed a message is the decoding of
\* the bytes of that message and of nothing else: for every content earlier
\* sends and recvs left in the buffer, it is Ok with the decoded value when
\* the received bytes decode and BincodeError with the decoder's error when
\* they do not.
C15_RecvDecodesReceivedBytes ==
    (last.op = "recv" /\ last.calls[1].kind = "Ok") =>
        LET d == Decode(last.ty, last.calls[1].arg, MAX_MESSAGE_LEN)
        IN  last.res = IF d.err = "" THEN Ok(d.val)
                       ELSE Res("BincodeError", d.err, NoVal)

\* a recv decoded a message shorter than the buffer while the buffer held
\* bytes of an earlier use beyond the message
C15_Witness ==
    /\ last.op = "recv" /\ last.res.kind = "Ok"
    /\ last.calls[1].arg # <<>>
    /\ \E i \in (Len(last.calls[1].arg) + 1)..Len(bc.buffer) :
          bc.buffer[i] # 0

\* the messages coalesced in the outgoing packet or handed to the sink
Outbound(ch) == Range(ch.out_packet) \cup Range(Flat(ch.outgoing))

\* C16: every message that is coalesced in the outgoing packet or has been
\* handed to the outgoing sink carries the encoding of the value its send
\* was given, whatever recvs, sends and flushes followed that send.
C16_SentBytesIntact ==
    \A m \in Outbound(bc.channel) : m.bytes = Encode(m.of)

\* a flush emitted a packet none of whose messages is what the buffer now
\* holds: the buffer was overwritten between their sends and the flush
C16_Witness ==
    /\ last.op = "flush" /\ last.res.kind = "Ok"
    /\ bc.channel.outgoing # <<>>
    /\ LET p == bc.channel.outgoing[Len(bc.channel.outgoing)]
       IN  /\ p # <<>>
           /\ \A i \in DOMAIN p :
                /\ p[i].bytes = Encode(p[i].of)
                /\ p[i].bytes # <<>>
                /\ p[i].bytes # SubSeq(bc.buffer, 1, Len(p[i].bytes))

\* C17: a recv makes no call of the underlying channel but recv and leaves
\* the outgoing packet, the outgoing sink and the outgoing endpoint as they
\* were; a send or a flush makes no call but send, respectively flush, and
\* leaves the incoming packets and the incoming endpoint as they were; a
\* flush leaves the buffer as it was.
C17_DirectionsIndependent ==
    [][/\ Completes("recv") =>
            /\ \A i \in DOMAIN last'.calls : last'.calls[i].op = "recv"
            /\ bc'.channel.out_packet = bc.channel.out_packet
            /\ bc'.channel.outgoing = bc.channel.outgoing
            /\ bc'.channel.out_closed = bc.channel.out_closed
       /\ (Completes("send") \/ Completes("flush")) =>
            /\ \A i \in DOMAIN last'.calls : last'.calls[i].op = last'.op
            /\ bc'.channel.in_packet = bc.channel.in_packet
            /\ bc'.channel.incoming = bc.channel.incoming
            /\ bc'.channel.in_closed = bc.channel.in_closed
       /\ Completes("flush") => bc'.buffer = bc.buffer]_vars

\* a flush handed a packet to the sink while messages were waiting in the
\* incoming packets and the buffer held bytes of an earlier call
C17_Witness ==
    /\ last.op = "flush" /\ last.res.kind = "Ok"
    /\ bc.channel.outgoing # <<>>
    /\ Arrived(bc.channel) # {}
    /\ \E i \in DOMAIN bc.buffer : bc.buffer[i] # 0

\* the futures that are suspended
InProgress == {t \in Tasks : futures[t] # Idle}

\* C11: at most one call of send, flush and recv is in progress on the
\* channel at any time, suspended calls included; while a send is suspended
\* between its encode step and the hand-off of the slice, the buffer holds
\* the encoding of its message in buffer[0..written] (no recv has written
\* into it), and the slice the underlying send takes is that encoding.
C11_Exclusive ==
    /\ Cardinality(InProgress) <= 1
    /\ \A t \in InProgress :
         futures[t].op = "send" =>
            SubSeq(bc.buffer, 1, futures[t].written) = Encode(futures[t].msg)
    /\ (last.op = "send" /\ Fits(last.arg)) =>
            Slices(last.calls) = <<Encode(last.arg)>>

\* a send is suspended after it has encoded a message of MAX_MESSAGE_LEN
\* bytes, the other task holds no future
C11_Witness ==
    \E t \in Tasks :
       /\ futures[t].op = "send"
       /\ futures[t].written = MAX_MESSAGE_LEN
       /\ InProgress = {t}
       /\ Len(bc.channel.outgoing) >= MaxQueue

\* C12: the call that completes next after a send, recv or flush was
\* abandoned at its suspension point starts afresh: a send hands the
\* underlying send exactly the encoding of its own message (none when the
\* encode fails), a recv that is handed a message returns the decoding of
\* exactly that message's bytes.
C12_FreshAfterAbandon ==
    gone.phase = "followed" =>
        /\ last.op = "send" =>
             Slices(last.calls) =
                 IF Fits(last.arg) THEN <<Encode(last.arg)>> ELSE <<>>
        /\ (last.op = "recv" /\ last.calls[1].kind = "Ok") =>
             LET d == Decode(last.ty, last.calls[1].arg, MAX_MESSAGE_LEN)
             IN  last.res = IF d.err = "" THEN Ok(d.val)
                            ELSE Res("BincodeError", d.err, NoVal)

\* a send that had encoded MAX_MESSAGE_LEN bytes was abandoned and the next
\* call, a send of a shorter message, returned Ok
C12_Witness ==
    /\ gone.phase = "followed"
    /\ gone.call.op = "send" /\ gone.call.written = MAX_MESSAGE_LEN
    /\ last.op = "send" /\ last.res.kind = "Ok"
    /\ Len(Encode(last.arg)) \in 1..(MAX_MESSAGE_LEN - 1)
    /\ bc.buffer[MAX_MESSAGE_LEN] # 0

=============================================================================
